---- MODULE Spec2Model ----
(***************************************************************************)
(* Model of custom_components/srf_weather/weather.py: the OAuth token      *)
(* cache (get_api_key, _renew_api_key), the HTTP GET helper (_get), the    *)
(* forecast parser (parse_forecast and its two wrappers), the three-loop   *)
(* forecast merge and the publication of the entity state                  *)
(* (SRFWeather.__update, SRFWeather.async_update).                         *)
(*                                                                         *)
(* Conventions.                                                            *)
(*  - A datetime is an integer: hours since a reference local midnight.    *)
(*    replace(minute=0, ...) is the truncation to that integer,            *)
(*    replace(hour=0) is t - (t % 24).                                     *)
(*  - time.time() is the integer clock, in seconds.                        *)
(*  - A Python dict is a function whose DOMAIN is its key set.             *)
(*  - A raw JSON scalar is Num(n) (text or number that int()/float()/      *)
(*    fromisoformat() accept, denoting n) or Text (anything they reject).  *)
(*  - None is <<>>, a present optional value v is <<v>>.                   *)
(***************************************************************************)
EXTENDS Integers, Sequences, FiniteSets, TLC

VARIABLES
    clock,      \* time.time(), seconds
    api_data,   \* SRFWeather._api_data: config plus the credential store
    pc,         \* where the refresh coroutine is suspended
    self,       \* the published entity state (_forecast, _state, ...)
    pre,        \* history: self when the current/last cycle began
    outcome,    \* history: how the last cycle ended
    err,        \* history: the exception that ended it
    now,        \* __update's local `now` (hour-truncated) of the last merge
    data,       \* the forecast response body handed to the last merge
    merged,     \* history: __update's local `forecast` before pop(0)
    renewed,    \* history: the last successful renewal, <<>> or
                \* <<[t, expires_in, synthesized]>> (synthesized: issued_at was missing)
    token_data, \* history: <<the exchange response of this cycle as received>>, or <<>>
    bearer,     \* _get's local api_key: <<>> or <<token>>
    last_ok,    \* history: self as the last successful cycle left it
    http_status,\* history: the HTTP status of this cycle's POST and GET responses
                \* ([post, get], 0: no response yet)
    arg,        \* the argument a pure function is applied to
    result,     \* what it returned
    heap,       \* the mutable objects (dicts) of several entities, by address
    ents,       \* the entities: the addresses and fields each one holds
    tasks,      \* the coroutines running on them: where each is suspended
    stored      \* history: per store address, the exchange response written last

vars == <<clock, api_data, pc, self, pre, outcome, err, now, data, merged,
          renewed, token_data, bearer, last_ok, http_status, arg, result,
          heap, ents, tasks, stored>>

\* The variables of one refresh cycle of one entity
cycle == <<clock, api_data, pc, self, pre, outcome, err, now, data, merged,
           renewed, token_data, bearer, last_ok, http_status>>
\* The variables of the pure functions applied on their own
pure == <<arg, result>>
\* The variables of several entities and coroutines side by side
shared == <<heap, ents, tasks, stored>>

----------------------------------------------------------------------------
(* Bounds of the model *)

\* The clock's first reading (seconds).
Epoch == 36000
\* How many seconds the clock may advance.
MaxTicks == 4
\* Total number of raw records over the three sources of a merge input.
MaxRecords == 3

\* Symbol ids handed to the condition mapper: -MaxSymbol..MaxSymbol.
MaxSymbol == 35
\* Degrees handed to the bearing converter: -MaxDeg..MaxDeg.
MaxDeg == 725

\* Hours of the day (on the reference day) at which a merge input is drawn.
NowHours == {9, 23}
\* expires_in values a token response may carry.
ExpiresIn == {1, 2}
\* access_token values a token response may carry.
Tokens == {"tokA", "tokB"}

----------------------------------------------------------------------------
(* Program constants *)

DEG_HALF_CIRCLE == 180
DEG_FULL_CIRCLE == 2 * DEG_HALF_CIRCLE
MS_PER_S == 1000
HOURLY_HOURS == 12
TRIPLE_HOUR_DAYS == 2
HOURS_PER_DAY == 24
SECONDS_PER_HOUR == 3600

None == <<>>
Some(v) == <<v>>

Num(n) == [num |-> TRUE, val |-> n]
Text == [num |-> FALSE, val |-> 0]

HasKey(d, k) == k \in DOMAIN d
\* d[k] = v on a dict
SetKey(d, k, v) == [x \in DOMAIN d \cup {k} |-> IF x = k THEN v ELSE d[x]]
\* d.update(u)
Update(d, u) == [x \in DOMAIN d \cup DOMAIN u |-> IF x \in DOMAIN u THEN u[x] ELSE d[x]]
\* d restricted to the keys in ks
Restrict(d, ks) == [x \in DOMAIN d \cap ks |-> d[x]]

----------------------------------------------------------------------------
(* Condition mapper and bearing converter *)

STATE_UNAVAILABLE == "unavailable"

\* SYMBOL_STATE_MAP, keys 1..30
SYMBOL_STATE_DAY ==
    << "sunny", "fog", "partlycloudy", "rainy", "lightning-rainy",
       "snowy", "snowy-rainy", "snowy-rainy", "snowy-rainy", "sunny",
       "partlycloudy", "sunny", "sunny", "sunny", "sunny",
       "sunny", "fog", "cloudy", "cloudy", "rainy",
       "snowy", "snowy-rainy", "pouring", "snowy", "rainy",
       "lightning", "snowy", "cloudy", "snowy-rainy", "snowy-rainy" >>

\* SYMBOL_STATE_MAP, keys -1..-30
SYMBOL_STATE_NIGHT ==
    << "clear-night", "fog", "cloudy", "rainy", "lightning-rainy",
       "snowy", "snowy", "snowy-rainy", "lightning-rainy", "partlycloudy",
       "rainy", "lightning", "snowy", "snowy", "snowy-rainy",
       "partlycloudy", "fog", "cloudy", "cloudy", "rainy",
       "snowy", "snowy-rainy", "pouring", "snowy", "rainy",
       "lightning", "rainy", "lightning-rainy", "snowy-rainy", "snowy-rainy" >>

\* The table without its night half
SYMBOL_STATE_MAP_get_DayOnly(symbol_id) ==
    IF symbol_id \in 1..Len(SYMBOL_STATE_DAY) THEN Some(SYMBOL_STATE_DAY[symbol_id])
    ELSE None

\* SYMBOL_STATE_MAP.get(symbol_id): <<>> when the key is absent
SYMBOL_STATE_MAP_get(symbol_id) ==
    IF symbol_id \in 1..Len(SYMBOL_STATE_DAY) THEN Some(SYMBOL_STATE_DAY[symbol_id])
    ELSE IF (0 - symbol_id) \in 1..Len(SYMBOL_STATE_NIGHT)
         THEN Some(SYMBOL_STATE_NIGHT[0 - symbol_id])
    ELSE None

get_condition_from_symbol(symbol_id) ==
    LET condition == SYMBOL_STATE_MAP_get(symbol_id)
    IN IF condition = None THEN STATE_UNAVAILABLE ELSE condition[1]

CARDINALS ==
    << "N", "NNE", "NE", "ENE", "E", "ESE", "SE", "SSE",
       "S", "SSW", "SW", "WSW", "W", "WNW", "NW", "NNW" >>

\* The quotient truncated instead of rounded
deg_to_cardinal_Truncate(deg) ==
    LET m == deg % DEG_FULL_CIRCLE
        i == (Len(CARDINALS) * m) \div DEG_FULL_CIRCLE
    IN CARDINALS[(i % Len(CARDINALS)) + 1]

\* round((deg % 360) / 22.5) for an integer deg.  (deg % 360) / 22.5 is never
\* k + 1/2 for an integer deg, so round-half-even is floor(x + 1/2):
\* floor(4 * m / 90 + 45 / 90).  CARDINALS is 1-based here.
deg_to_cardinal(deg) ==
    LET m == deg % DEG_FULL_CIRCLE
        i == (2 * Len(CARDINALS) * m + DEG_FULL_CIRCLE) \div (2 * DEG_FULL_CIRCLE)
    IN CARDINALS[(i % Len(CARDINALS)) + 1]

----------------------------------------------------------------------------
(* Forecast parser *)

\* dict[key] then int()/float()/fromisoformat(): raises on a missing key
\* (KeyError) and on a value the conversion rejects (ValueError)
Converts(d, key) == HasKey(d, key) /\ d[key].num

Raised == [ok |-> FALSE, fdate |-> 0, data |-> <<>>]

parse_forecast(forecast) ==
    IF ~Converts(forecast, "local_date_time") THEN Raised
    ELSE IF ~Converts(forecast, "SYMBOL_CODE") THEN Raised
    ELSE IF ~Converts(forecast, "RRR_MM") THEN Raised
    ELSE IF ~Converts(forecast, "FF_KMH") THEN Raised
    ELSE IF ~Converts(forecast, "PROBPCP_PERCENT") THEN Raised
    ELSE LET date == forecast["local_date_time"].val
             symbol_id == forecast["SYMBOL_CODE"].val
             d == [datetime |-> date,
                   condition |-> get_condition_from_symbol(symbol_id),
                   symbol_id |-> symbol_id,
                   precipitation |-> forecast["RRR_MM"].val,
                   wind_speed |-> forecast["FF_KMH"].val,
                   precipitation_probability |-> forecast["PROBPCP_PERCENT"].val]
         IN IF ~HasKey(forecast, "DD_DEG") THEN [ok |-> TRUE, fdate |-> date, data |-> d]
            ELSE IF ~forecast["DD_DEG"].num THEN Raised
            ELSE [ok |-> TRUE, fdate |-> date,
                  data |-> SetKey(d, "wind_bearing", forecast["DD_DEG"].val)]

parse_forecast_day(day) ==
    LET p == parse_forecast(day)
    IN IF ~p.ok THEN Raised
       ELSE IF ~Converts(day, "TX_C") THEN Raised
       ELSE IF ~Converts(day, "TN_C") THEN Raised
       ELSE [p EXCEPT !.data = Update(p.data, [temperature |-> day["TX_C"].val,
                                               templow |-> day["TN_C"].val])]

parse_forecast_hour(hour) ==
    LET p == parse_forecast(hour)
    IN IF ~p.ok THEN Raised
       ELSE IF ~Converts(hour, "TTT_C") THEN Raised
       ELSE [p EXCEPT !.data = Update(p.data, [temperature |-> hour["TTT_C"].val])]

----------------------------------------------------------------------------
(* Forecast merge: the three loops of SRFWeather.__update *)

\* now + timedelta(hours=12)
HourlySplit(t) == t + HOURLY_HOURS

\* (now + timedelta(days=2)).replace(hour=0)
TripleHourSplit(t) ==
    LET u == t + TRIPLE_HOUR_DAYS * HOURS_PER_DAY
    IN u - (u % HOURS_PER_DAY)

\* The hourly loop breaking at, not past, the split (>= for >)
RECURSIVE HourlyLoop_BreakAtSplit(_, _, _, _, _)
HourlyLoop_BreakAtSplit(raw, i, t, hourly_split, forecast) ==
    IF i > Len(raw) THEN forecast
    ELSE LET p == parse_forecast_hour(raw[i])
         IN IF ~p.ok THEN HourlyLoop_BreakAtSplit(raw, i + 1, t, hourly_split, forecast)
            ELSE IF p.fdate < t THEN HourlyLoop_BreakAtSplit(raw, i + 1, t, hourly_split, forecast)
            ELSE IF p.fdate >= hourly_split THEN forecast
            ELSE HourlyLoop_BreakAtSplit(raw, i + 1, t, hourly_split, Append(forecast, p.data))

\* The hourly loop ending at a record that fails to parse (break for continue)
RECURSIVE HourlyLoop_AbortOnFailure(_, _, _, _, _)
HourlyLoop_AbortOnFailure(raw, i, t, hourly_split, forecast) ==
    IF i > Len(raw) THEN forecast
    ELSE LET p == parse_forecast_hour(raw[i])
         IN IF ~p.ok THEN forecast
            ELSE IF p.fdate < t THEN HourlyLoop_AbortOnFailure(raw, i + 1, t, hourly_split, forecast)
            ELSE IF p.fdate > hourly_split THEN forecast
            ELSE HourlyLoop_AbortOnFailure(raw, i + 1, t, hourly_split, Append(forecast, p.data))

\* The hourly loop passing over a record past the split (continue for break)
RECURSIVE HourlyLoop_SkipPastSplit(_, _, _, _, _)
HourlyLoop_SkipPastSplit(raw, i, t, hourly_split, forecast) ==
    IF i > Len(raw) THEN forecast
    ELSE LET p == parse_forecast_hour(raw[i])
         IN IF ~p.ok THEN HourlyLoop_SkipPastSplit(raw, i + 1, t, hourly_split, forecast)
            ELSE IF p.fdate < t
            THEN HourlyLoop_SkipPastSplit(raw, i + 1, t, hourly_split, forecast)
            ELSE IF p.fdate > hourly_split
            THEN HourlyLoop_SkipPastSplit(raw, i + 1, t, hourly_split, forecast)
            ELSE HourlyLoop_SkipPastSplit(raw, i + 1, t, hourly_split,
                                          Append(forecast, p.data))

\* for raw_hour in data["forecast"]["60minutes"], from index i on
RECURSIVE HourlyLoop(_, _, _, _, _)
HourlyLoop(raw, i, t, hourly_split, forecast) ==
    IF i > Len(raw) THEN forecast
    ELSE LET p == parse_forecast_hour(raw[i])
         IN IF ~p.ok THEN HourlyLoop(raw, i + 1, t, hourly_split, forecast)
            ELSE IF p.fdate < t THEN HourlyLoop(raw, i + 1, t, hourly_split, forecast)
            ELSE IF p.fdate > hourly_split THEN forecast
            ELSE HourlyLoop(raw, i + 1, t, hourly_split, Append(forecast, p.data))

\* The three-hourly loop keeping the record at the hourly split (< for <=)
RECURSIVE TripleHourLoop_KeepSplit(_, _, _, _, _)
TripleHourLoop_KeepSplit(raw, i, hourly_split, triple_hour_split, forecast) ==
    IF i > Len(raw) THEN forecast
    ELSE LET p == parse_forecast_hour(raw[i])
         IN IF ~p.ok
            THEN TripleHourLoop_KeepSplit(raw, i + 1, hourly_split, triple_hour_split, forecast)
            ELSE IF p.fdate < hourly_split
            THEN TripleHourLoop_KeepSplit(raw, i + 1, hourly_split, triple_hour_split, forecast)
            ELSE IF p.fdate > triple_hour_split THEN forecast
            ELSE TripleHourLoop_KeepSplit(raw, i + 1, hourly_split, triple_hour_split,
                                          Append(forecast, p.data))

\* for raw_three_hour in data["forecast"]["hour"], from index i on
RECURSIVE TripleHourLoop(_, _, _, _, _)
TripleHourLoop(raw, i, hourly_split, triple_hour_split, forecast) ==
    IF i > Len(raw) THEN forecast
    ELSE LET p == parse_forecast_hour(raw[i])
         IN IF ~p.ok
            THEN TripleHourLoop(raw, i + 1, hourly_split, triple_hour_split, forecast)
            ELSE IF p.fdate <= hourly_split
            THEN TripleHourLoop(raw, i + 1, hourly_split, triple_hour_split, forecast)
            ELSE IF p.fdate > triple_hour_split THEN forecast
            ELSE TripleHourLoop(raw, i + 1, hourly_split, triple_hour_split,
                                Append(forecast, p.data))

\* for raw_day in data["forecast"]["day"], from index i on
RECURSIVE DayLoop(_, _, _, _)
DayLoop(raw, i, triple_hour_split, forecast) ==
    IF i > Len(raw) THEN forecast
    ELSE LET p == parse_forecast_day(raw[i])
         IN IF ~p.ok THEN DayLoop(raw, i + 1, triple_hour_split, forecast)
            ELSE IF p.fdate <= triple_hour_split
            THEN DayLoop(raw, i + 1, triple_hour_split, forecast)
            ELSE DayLoop(raw, i + 1, triple_hour_split, Append(forecast, p.data))

\* __update's local `forecast` when the three loops are through
MergeForecast(t, d) ==
    LET hourly_split == HourlySplit(t)
        triple_hour_split == TripleHourSplit(t)
        f1 == HourlyLoop(d["60minutes"], 1, t, hourly_split, <<>>)
        f2 == TripleHourLoop(d["hour"], 1, hourly_split, triple_hour_split, f1)
    IN DayLoop(d["day"], 1, triple_hour_split, f2)


----------------------------------------------------------------------------
(* Inputs: raw records as the forecast endpoint sends them *)

\* Field values of the record for hour ts: distinct hours carry distinct values.
SymbolAt(ts) == (ts % 33) - 1
DegAt(ts) == (ts * 37) % DEG_FULL_CIRCLE
TempAt(ts) == (ts % 11) - 2

\* g is the number of hours the record covers (1, 3 or 24): the precipitation
\* total depends on it, so records of different arrays differ at the same hour.
CommonFields(ts, g) ==
    "local_date_time" :> Num(ts) @@ "SYMBOL_CODE" :> Num(SymbolAt(ts)) @@
    "RRR_MM" :> Num(g + (ts % 4)) @@ "FF_KMH" :> Num(ts % 7) @@
    "PROBPCP_PERCENT" :> Num((ts * 10) % 100) @@ "DD_DEG" :> Num(DegAt(ts))

\* A record of the "60minutes" array
HourRecord(ts) == CommonFields(ts, 1) @@ "TTT_C" :> Num(TempAt(ts))
\* A record of the "hour" (three-hourly) array
TripleHourRecord(ts) == CommonFields(ts, 3) @@ "TTT_C" :> Num(TempAt(ts))
\* A record of the "day" array
DayRecord(ts) ==
    CommonFields(ts, HOURS_PER_DAY) @@ "TX_C" :> Num(TempAt(ts) + 5) @@ "TN_C" :> Num(TempAt(ts))
\* The record with a non-numeric RRR_MM
BadRRR(r) == [r EXCEPT !["RRR_MM"] = Text]
\* The record with DD_DEG missing
NoBearing(r) == Restrict(r, DOMAIN r \ {"DD_DEG"})

ForecastData(h, th, d) == "60minutes" :> h @@ "hour" :> th @@ "day" :> d

\* The timestamps a merge input is drawn from: just before `now`, and at and
\* just after each of the bounds the loops compare with.
TimeGrid(t) ==
    { t - 1, t, HourlySplit(t), HourlySplit(t) + 1,
      TripleHourSplit(t), TripleHourSplit(t) + 1, TripleHourSplit(t) + HOURS_PER_DAY }

\* The timestamps of the records that do not parse: inside the hourly window
\* and just past either cutoff.
BadTimeGrid(t) == { t, HourlySplit(t) + 1, TripleHourSplit(t) + 1 }

HourRaw(t) ==
    { HourRecord(ts) : ts \in TimeGrid(t) } \cup { BadRRR(HourRecord(ts)) : ts \in BadTimeGrid(t) }
TripleHourRaw(t) ==
    { TripleHourRecord(ts) : ts \in TimeGrid(t) }
    \cup { BadRRR(TripleHourRecord(ts)) : ts \in BadTimeGrid(t) }
DayRaw(t) ==
    { DayRecord(ts) : ts \in TimeGrid(t) } \cup { BadRRR(DayRecord(ts)) : ts \in BadTimeGrid(t) }

----------------------------------------------------------------------------
(* The entity *)

\* No response received yet
NoStatus == [post |-> 0, get |-> 0]

\* SRFWeather.__init__'s published fields
InitSelf ==
    [_forecast |-> <<>>, _state |-> None, _temperature |-> None,
     _wind_speed |-> None, _wind_bearing |-> None, _state_attrs |-> <<>>]

\* config_entry.data
Config == [consumer_key |-> "key", consumer_secret |-> "secret", geolocation_id |-> "geo"]

\* datetime.now().astimezone().replace(minute=0, second=0, microsecond=0)
LocalHour(t) == t \div SECONDS_PER_HOUR

\* The constructor keeping the mapping it was given as its credential store
SRFWeather_init_NoCopy(h, c) ==
    [heap |-> h \o << h[c], <<>> >>,
     entity |-> [_config |-> c, _api_data |-> c, _state_attrs |-> Len(h) + 2,
                 _forecast |-> InitSelf._forecast, _state |-> InitSelf._state,
                 _temperature |-> InitSelf._temperature,
                 _wind_speed |-> InitSelf._wind_speed,
                 _wind_bearing |-> InitSelf._wind_bearing]]

\* SRFWeather.__init__(config) on the heap h, config being the object at
\* address c: dict(self._config) and {} are new objects, at the next two
\* addresses; the entity holds their addresses.
SRFWeather_init(h, c) ==
    [heap |-> h \o << h[c], <<>> >>,
     entity |-> [_config |-> c, _api_data |-> Len(h) + 1, _state_attrs |-> Len(h) + 2,
                 _forecast |-> InitSelf._forecast, _state |-> InitSelf._state,
                 _temperature |-> InitSelf._temperature,
                 _wind_speed |-> InitSelf._wind_speed,
                 _wind_bearing |-> InitSelf._wind_bearing]]

\* The published fields of the entity ent, its _state_attrs read from the heap h
SelfOf(h, ent) ==
    [_forecast |-> ent._forecast, _state |-> ent._state,
     _temperature |-> ent._temperature, _wind_speed |-> ent._wind_speed,
     _wind_bearing |-> ent._wind_bearing, _state_attrs |-> h[ent._state_attrs]]

\* The entity ent with its attributes assigned as in s
WithSelf(ent, s) ==
    [ent EXCEPT !._forecast = s._forecast, !._state = s._state,
                !._temperature = s._temperature, !._wind_speed = s._wind_speed,
                !._wind_bearing = s._wind_bearing]

----------------------------------------------------------------------------
(* Token cache *)

EXPECTED_KEYS == {"issued_at", "expires_in", "access_token"}

\* The check not expecting access_token
check_client_credentials_response_NoToken(d, t) ==
    LET d1 == IF HasKey(d, "issued_at") THEN d ELSE SetKey(d, "issued_at", t)
        missing == (EXPECTED_KEYS \ {"access_token"}) \ DOMAIN d1
    IN [ok |-> missing = {}, d |-> d1]

\* _check_client_credentials_response at time t: d with issued_at filled in,
\* ok = FALSE when it raises ValueError
check_client_credentials_response(d, t) ==
    LET d1 == IF HasKey(d, "issued_at") THEN d ELSE SetKey(d, "issued_at", t)
        missing == EXPECTED_KEYS \ DOMAIN d1
    IN [ok |-> missing = {}, d |-> d1]

\* The renewal keeping an expiry the store already holds
renew_api_key_KeepExpiry(store, td) ==
    IF ~HasKey(td, "expires_in") \/ ~HasKey(td, "issued_at") THEN [ok |-> FALSE, data |-> store]
    ELSE LET d1 == IF HasKey(store, "expires_at") THEN store
                   ELSE SetKey(store, "expires_at",
                               td["expires_in"] + (td["issued_at"] \div MS_PER_S))
         IN IF ~HasKey(td, "access_token") THEN [ok |-> FALSE, data |-> d1]
            ELSE [ok |-> TRUE, data |-> SetKey(d1, "api_key", td["access_token"])]

\* _renew_api_key once request_access_token has returned token_data: the store
\* it leaves, ok = FALSE when the try block raises (KeyError)
renew_api_key(store, td) ==
    IF ~HasKey(td, "expires_in") \/ ~HasKey(td, "issued_at") THEN [ok |-> FALSE, data |-> store]
    ELSE LET d1 == SetKey(store, "expires_at", td["expires_in"] + (td["issued_at"] \div MS_PER_S))
         IN IF ~HasKey(td, "access_token") THEN [ok |-> FALSE, data |-> d1]
            ELSE [ok |-> TRUE, data |-> SetKey(d1, "api_key", td["access_token"])]

\* The decision with the expiry instant itself still valid (> for >=)
NeedsRenewal_Strict(store, t) ==
    IF ~HasKey(store, "expires_at") THEN TRUE ELSE t > store["expires_at"]

\* get_api_key's decision `renew` at time t
NeedsRenewal(store, t) ==
    IF ~HasKey(store, "expires_at") THEN TRUE ELSE t >= store["expires_at"]

\* The exchange responses the token endpoint may send at time t: any subset of
\* the three keys, issued_at in milliseconds.
TokenResponses(t) ==
    { Restrict("issued_at" :> (MS_PER_S * t) @@ "expires_in" :> e @@ "access_token" :> a, ks) :
        e \in ExpiresIn, a \in Tokens, ks \in SUBSET EXPECTED_KEYS }

----------------------------------------------------------------------------
(* Publication: SRFWeather.__update from `self._forecast = forecast` on *)

\* Lines 277-291 on a non-empty list `forecast`, which self._forecast (in s)
\* refers to; ok = FALSE when they raise (err), with the fields assigned
\* until then.
SplitOff(s, forecast) ==
    LET forecastnow == Head(forecast)
        \* pop(0) mutates the list self._forecast refers to
        s2 == [s EXCEPT !._forecast = Tail(forecast)]
        s3 == [s2 EXCEPT !._state = Some(forecastnow["condition"]),
                         !._temperature = Some(forecastnow["temperature"]),
                         !._wind_speed = Some(forecastnow["wind_speed"])]
    IN IF ~HasKey(forecastnow, "wind_bearing")
       THEN [ok |-> FALSE, err |-> "KeyError", self |-> s3]
       ELSE [ok |-> TRUE, err |-> "",
             self |-> [s3 EXCEPT
                !._wind_bearing = Some(deg_to_cardinal(forecastnow["wind_bearing"])),
                !._state_attrs = Update(s3._state_attrs,
                    [wind_direction |-> forecastnow["wind_bearing"],
                     symbol_id |-> forecastnow["symbol_id"],
                     precipitation |-> forecastnow["precipitation"],
                     precipitation_probability |->
                         forecastnow["precipitation_probability"]])]]

\* The publication with an empty list tolerated: nothing is split off and the
\* condition is reported unavailable
Publish_EmptyTolerated(s, forecast) ==
    LET s1 == [s EXCEPT !._forecast = forecast]
    IN IF Len(forecast) = 0
       THEN [ok |-> TRUE, err |-> "",
             self |-> [s1 EXCEPT !._state = Some(STATE_UNAVAILABLE), !._temperature = None]]
       ELSE SplitOff(s1, forecast)

\* The publication with self._forecast a copy of the list, which pop(0) on the
\* local list does not shorten
Publish_Copy(s, forecast) ==
    LET s1 == [s EXCEPT !._forecast = forecast]
    IN IF Len(forecast) = 0 THEN [ok |-> FALSE, err |-> "IndexError", self |-> s1]
       ELSE LET r == SplitOff(s1, forecast)
            IN [r EXCEPT !.self = [r.self EXCEPT !._forecast = forecast]]

\* The entity after lines 274-291 run on the merged list `forecast`;
\* ok = FALSE when they raise (err), with the fields assigned until then.
Publish(s, forecast) ==
    LET s1 == [s EXCEPT !._forecast = forecast]
    IN IF Len(forecast) = 0 THEN [ok |-> FALSE, err |-> "IndexError", self |-> s1]
       ELSE SplitOff(s1, forecast)

\* resp.raise_for_status()
RaisesForStatus(status) == status >= 400

\* The forecast bodies the endpoint may send when the local hour is t
Payloads(t) ==
    { ForecastData(<<>>, <<>>, <<>>),
      ForecastData(<<HourRecord(t), HourRecord(t + 1)>>,
                   <<TripleHourRecord(HourlySplit(t) + 1)>>,
                   <<DayRecord(TripleHourSplit(t) + HOURS_PER_DAY)>>),
      ForecastData(<<HourRecord(t - 1), BadRRR(HourRecord(t)), HourRecord(t + 1)>>,
                   <<TripleHourRecord(HourlySplit(t)), TripleHourRecord(HourlySplit(t) + 1)>>,
                   <<>>),
      ForecastData(<<NoBearing(HourRecord(t)), HourRecord(t + 2)>>, <<>>, <<>>),
      ForecastData(<<HourRecord(t - 1)>>, <<TripleHourRecord(t)>>, <<DayRecord(t)>>) }

StatusCodes == {200, 404}

----------------------------------------------------------------------------
(* The two pure functions on their own: an argument is drawn, one is applied *)

InitPure ==
    /\ arg \in (0 - MaxDeg)..MaxDeg
    /\ result = ""
    /\ pc = "input"
    /\ clock = Epoch
    /\ api_data = Config
    /\ self = InitSelf
    /\ pre = InitSelf
    /\ outcome = "none"
    /\ err = ""
    /\ now = 0
    /\ data = <<>>
    /\ merged = <<>>
    /\ renewed = None
    /\ token_data = None
    /\ bearer = None
    /\ last_ok = InitSelf
    /\ http_status = NoStatus
    /\ heap = <<>>
    /\ ents = <<>>
    /\ tasks = <<>>
    /\ stored = <<>>

\* parse_forecast maps a record's SYMBOL_CODE
ApplyCondition ==
    /\ pc = "input"
    /\ arg \in (0 - MaxSymbol)..MaxSymbol
    /\ result' = get_condition_from_symbol(arg)
    /\ pc' = "condition"
    /\ UNCHANGED <<arg, clock, api_data, self, pre, outcome, err, now, data, merged,
                   renewed, token_data, bearer, last_ok, http_status>>
    /\ UNCHANGED shared

\* __update converts the bearing of the current record
ApplyCardinal ==
    /\ pc = "input"
    /\ result' = deg_to_cardinal(arg)
    /\ pc' = "cardinal"
    /\ UNCHANGED <<arg, clock, api_data, self, pre, outcome, err, now, data, merged,
                   renewed, token_data, bearer, last_ok, http_status>>
    /\ UNCHANGED shared

NextPure == ApplyCondition \/ ApplyCardinal

SpecPure == InitPure /\ [][NextPure]_vars

----------------------------------------------------------------------------
(* The merge on its own: an input is drawn, the three loops run *)

InitMerge ==
    /\ \E t \in NowHours, a \in 0..MaxRecords :
         \E b \in 0..(MaxRecords - a) :
           \E c \in 0..(MaxRecords - a - b) :
             \E h \in [1..a -> HourRaw(t)], th \in [1..b -> TripleHourRaw(t)], d \in [1..c -> DayRaw(t)] :
               /\ now = t
               /\ data = ForecastData(h, th, d)
    /\ pc = "input"
    /\ merged = <<>>
    /\ clock = Epoch
    /\ api_data = Config
    /\ self = InitSelf
    /\ pre = InitSelf
    /\ outcome = "none"
    /\ err = ""
    /\ renewed = None
    /\ token_data = None
    /\ bearer = None
    /\ last_ok = InitSelf
    /\ http_status = NoStatus
    /\ arg = 0
    /\ result = ""
    /\ heap = <<>>
    /\ ents = <<>>
    /\ tasks = <<>>
    /\ stored = <<>>

RunMerge ==
    /\ pc = "input"
    /\ merged' = MergeForecast(now, data)
    /\ pc' = "merged"
    /\ UNCHANGED <<clock, api_data, self, pre, outcome, err, now, data, renewed, token_data, bearer,
                   last_ok, http_status>>
    /\ UNCHANGED <<pure, shared>>

NextMerge == RunMerge

SpecMerge == InitMerge /\ [][NextMerge]_vars


----------------------------------------------------------------------------
(* The refresh cycle: async_update -> __update -> _get -> get_api_key *)

Init ==
    /\ clock = Epoch
    /\ api_data = Config
    /\ pc = "idle"
    /\ self = InitSelf
    /\ pre = InitSelf
    /\ outcome = "none"
    /\ err = ""
    /\ now = LocalHour(Epoch)
    /\ data = <<>>
    /\ merged = <<>>
    /\ renewed = None
    /\ token_data = None
    /\ bearer = None
    /\ last_ok = InitSelf
    /\ http_status = NoStatus
    /\ arg = 0
    /\ result = ""
    /\ heap = <<>>
    /\ ents = <<>>
    /\ tasks = <<>>
    /\ stored = <<>>

\* time passes
Tick ==
    /\ clock < Epoch + MaxTicks
    /\ clock' = clock + 1
    /\ UNCHANGED <<api_data, pc, self, pre, outcome, err, now, data, merged,
                   renewed, token_data, bearer, last_ok, http_status>>
    /\ UNCHANGED <<pure, shared>>

\* The scheduler calls async_update; the coroutine runs to its first
\* suspension: the token exchange when get_api_key renews, else the GET.
StartUpdate ==
    /\ pc = "idle"
    /\ pre' = self
    /\ outcome' = "running"
    /\ err' = ""
    /\ data' = <<>>
    /\ merged' = <<>>
    /\ token_data' = None
    /\ IF NeedsRenewal(api_data, clock)
       THEN pc' = "token" /\ bearer' = None
       ELSE pc' = "get" /\ bearer' = Some(api_data["api_key"])
    /\ http_status' = NoStatus
    /\ UNCHANGED <<clock, api_data, self, now, renewed, last_ok>>
    /\ UNCHANGED <<pure, shared>>

\* The handlers with cancellation caught like any other exception
async_update_CatchAll(exc) ==
    IF exc = "" THEN "ok" ELSE "error"

\* async_update's try statement around `await self.__update()`, exc being
\* the exception __update raised ("": none).  "ok": returns; "cancelled":
\* CancelledError re-raised to the caller; "error": the exception is logged
\* and async_update returns.
async_update(exc) ==
    IF exc = "" THEN "ok"
    ELSE IF exc = "CancelledError" THEN "cancelled"
    ELSE "error"

\* __update raises e: the cycle ends in async_update's handlers
Fails(e) ==
    /\ pc' = "idle"
    /\ outcome' = async_update(e)
    /\ err' = e

\* The token endpoint answers d with an HTTP status, which
\* request_access_token does not read: it checks d, _renew_api_key stores it,
\* get_api_key returns and _get sends the GET.
TokenResponse(status, d) ==
    /\ pc = "token"
    /\ token_data' = Some(d)
    /\ http_status' = [http_status EXCEPT !.post = status]
    /\ LET chk == check_client_credentials_response(d, clock)
           r == renew_api_key(api_data, chk.d)
       IN IF ~chk.ok
          THEN Fails("ValueError") /\ UNCHANGED <<api_data, renewed, bearer>>
          ELSE IF ~r.ok
          THEN Fails("KeyError") /\ api_data' = r.data /\ UNCHANGED <<renewed, bearer>>
          ELSE /\ api_data' = r.data
               /\ renewed' = Some([t |-> clock, expires_in |-> d["expires_in"],
                                   synthesized |-> ~HasKey(d, "issued_at")])
               /\ bearer' = Some(r.data["api_key"])
               /\ pc' = "get"
               /\ UNCHANGED <<outcome, err>>
    /\ UNCHANGED <<clock, self, pre, now, data, merged, last_ok>>
    /\ UNCHANGED <<pure, shared>>

\* The POST or the decoding of its body raises
TokenError ==
    /\ pc = "token"
    /\ Fails("ClientError")
    /\ UNCHANGED <<clock, api_data, self, pre, now, data, merged, renewed, token_data, bearer,
                   last_ok, http_status>>
    /\ UNCHANGED <<pure, shared>>

\* The forecast endpoint answers: raise_for_status, then the merge and the
\* publication, which run without a further suspension.
GetResponse(status, body) ==
    /\ pc = "get"
    /\ http_status' = [http_status EXCEPT !.get = status]
    /\ IF RaisesForStatus(status)
       THEN Fails("ClientResponseError") /\ UNCHANGED <<self, now, data, merged, last_ok>>
       ELSE LET t == LocalHour(clock)
                forecast == MergeForecast(t, body)
                p == Publish(self, forecast)
            IN /\ now' = t
               /\ data' = body
               /\ merged' = forecast
               /\ self' = p.self
               /\ pc' = "idle"
               /\ outcome' = async_update(p.err)
               /\ err' = p.err
               /\ last_ok' = IF p.ok THEN p.self ELSE last_ok
    /\ UNCHANGED <<clock, api_data, pre, renewed, token_data, bearer>>
    /\ UNCHANGED <<pure, shared>>

\* The GET or the decoding of its body raises
GetError ==
    /\ pc = "get"
    /\ Fails("ClientError")
    /\ UNCHANGED <<clock, api_data, self, pre, now, data, merged, renewed, token_data, bearer,
                   last_ok, http_status>>
    /\ UNCHANGED <<pure, shared>>

\* The host cancels the suspended coroutine: async_update re-raises
Cancel ==
    /\ pc \in {"token", "get"}
    /\ Fails("CancelledError")
    /\ UNCHANGED <<clock, api_data, self, pre, now, data, merged, renewed, token_data, bearer,
                   last_ok, http_status>>
    /\ UNCHANGED <<pure, shared>>

Next ==
    \/ Tick
    \/ StartUpdate
    \/ \E status \in StatusCodes, d \in TokenResponses(clock) : TokenResponse(status, d)
    \/ TokenError
    \/ \E status \in StatusCodes, body \in Payloads(LocalHour(clock)) : GetResponse(status, body)
    \/ GetError
    \/ Cancel

Spec == Init /\ [][Next]_vars

----------------------------------------------------------------------------
(* Two entities created from one config mapping, and the coroutines that   *)
(* run on them side by side: each one calls get_api_key and, for a refresh, *)
(* merges and publishes.  The clock stands still.                          *)

\* The entity each coroutine runs on: two on the first, one on the second
Coroutines == <<1, 1, 2>>

\* The address of the config mapping
ConfigAddress == 1

\* The forecast bodies the endpoint may send a coroutine when the local hour
\* is t: none that merges to nothing, one that publishes, one whose first
\* record has no bearing
SharedPayloads(t) ==
    { ForecastData(<<>>, <<>>, <<>>),
      ForecastData(<<HourRecord(t), HourRecord(t + 1)>>, <<>>, <<>>),
      ForecastData(<<NoBearing(HourRecord(t)), HourRecord(t + 2)>>, <<>>, <<>>) }

InitShared ==
    /\ LET first == SRFWeather_init(<<Config>>, ConfigAddress)
           second == SRFWeather_init(first.heap, ConfigAddress)
       IN /\ heap = second.heap
          /\ ents = <<first.entity, second.entity>>
          /\ stored = [a \in 1..Len(second.heap) |-> None]
    /\ tasks = [k \in 1..Len(Coroutines) |->
                    [entity |-> Coroutines[k], pc |-> "idle", resp |-> None]]
    /\ clock = Epoch
    /\ api_data = Config
    /\ pc = "idle"
    /\ self = InitSelf
    /\ pre = InitSelf
    /\ outcome = "none"
    /\ err = ""
    /\ now = LocalHour(Epoch)
    /\ data = <<>>
    /\ merged = <<>>
    /\ renewed = None
    /\ token_data = None
    /\ bearer = None
    /\ last_ok = InitSelf
    /\ http_status = NoStatus
    /\ arg = 0
    /\ result = ""

\* Coroutine k enters _get and get_api_key, and runs to its first suspension:
\* the token exchange when get_api_key renews, else the GET.
TaskStart(k) ==
    /\ tasks[k].pc = "idle"
    /\ LET store == heap[ents[tasks[k].entity]._api_data]
       IN tasks' = [tasks EXCEPT ![k].pc =
                        IF NeedsRenewal(store, clock) THEN "token" ELSE "get"]
    /\ UNCHANGED <<heap, ents, stored>>
    /\ UNCHANGED <<cycle, pure>>

\* The token endpoint answers coroutine k with d: the check and the two
\* assignments of _renew_api_key run without a suspension between them.
TaskToken(k, d) ==
    /\ tasks[k].pc = "token"
    /\ LET a == ents[tasks[k].entity]._api_data
           chk == check_client_credentials_response(d, clock)
           r == renew_api_key(heap[a], chk.d)
       IN IF ~chk.ok
          THEN /\ tasks' = [tasks EXCEPT ![k].pc = "failed"]
               /\ UNCHANGED <<heap, stored>>
          ELSE /\ heap' = [heap EXCEPT ![a] = r.data]
               /\ IF r.ok
                  THEN /\ tasks' = [tasks EXCEPT ![k].pc = "get", ![k].resp = Some(chk.d)]
                       /\ stored' = [stored EXCEPT ![a] = Some(chk.d)]
                  ELSE /\ tasks' = [tasks EXCEPT ![k].pc = "failed"]
                       /\ UNCHANGED stored
    /\ UNCHANGED ents
    /\ UNCHANGED <<cycle, pure>>

\* The forecast endpoint answers coroutine k: raise_for_status, then the
\* merge and the publication on the coroutine's entity.
TaskGet(k, status, body) ==
    /\ tasks[k].pc = "get"
    /\ IF RaisesForStatus(status)
       THEN /\ tasks' = [tasks EXCEPT ![k].pc = "failed"]
            /\ UNCHANGED <<heap, ents>>
       ELSE LET e == tasks[k].entity
                r == Publish(SelfOf(heap, ents[e]), MergeForecast(LocalHour(clock), body))
            IN /\ ents' = [ents EXCEPT ![e] = WithSelf(ents[e], r.self)]
               /\ heap' = [heap EXCEPT ![ents[e]._state_attrs] = r.self._state_attrs]
               /\ tasks' = [tasks EXCEPT ![k].pc = IF r.ok THEN "done" ELSE "failed"]
    /\ UNCHANGED stored
    /\ UNCHANGED <<cycle, pure>>

NextShared ==
    \E k \in 1..Len(Coroutines) :
        \/ TaskStart(k)
        \/ \E d \in TokenResponses(clock) : TaskToken(k, d)
        \/ \E status \in StatusCodes, body \in SharedPayloads(LocalHour(clock)) :
                TaskGet(k, status, body)

SpecShared == InitShared /\ [][NextShared]_vars

----------------------------------------------------------------------------
(* Properties of the merge *)

ParsedHour(src) == [i \in 1..Len(src) |-> parse_forecast_hour(src[i])]
ParsedDay(src) == [i \in 1..Len(src) |-> parse_forecast_day(src[i])]

\* The parseable records of a parsed source are in ascending time order
Ascending(ps) ==
    \A i, j \in 1..Len(ps) : (i < j /\ ps[i].ok /\ ps[j].ok) => ps[i].fdate <= ps[j].fdate
StrictlyAscending(ps) ==
    \A i, j \in 1..Len(ps) : (i < j /\ ps[i].ok /\ ps[j].ok) => ps[i].fdate < ps[j].fdate

\* The points of the parseable records with lo <= fdate <= hi, in source order
Window(ps, lo, hi) ==
    LET kept == SelectSeq(ps, LAMBDA p : p.ok /\ lo <= p.fdate /\ p.fdate <= hi)
    IN [i \in 1..Len(kept) |-> kept[i].data]
\* The points of the parseable records with fdate >= lo, in source order
From(ps, lo) ==
    LET kept == SelectSeq(ps, LAMBDA p : p.ok /\ lo <= p.fdate)
    IN [i \in 1..Len(kept) |-> kept[i].data]

RemoveAt(s, i) == SubSeq(s, 1, i - 1) \o SubSeq(s, i + 1, Len(s))

\* C4: for three sources each ascending by timestamp, the merged sequence is the
\* parseable hourly records with now <= ts <= now+12h, then the parseable
\* three-hourly records with now+12h < ts <= midnight of now+48h, then the
\* parseable daily records with ts later than that, each group in source order.
C4_MergeIsWindowedConcat ==
    LET hourly_cutoff == now + 12
        daily_cutoff == ((now + 48) \div 24) * 24
        h == ParsedHour(data["60minutes"])
        th == ParsedHour(data["hour"])
        d == ParsedDay(data["day"])
    IN (pc = "merged" /\ Ascending(h) /\ Ascending(th) /\ Ascending(d)) =>
          merged = Window(h, now, hourly_cutoff)
                   \o Window(th, hourly_cutoff + 1, daily_cutoff)
                   \o From(d, daily_cutoff + 1)

\* C4's case: ascending sources, a merged sequence holding an hourly point
\* followed by a three-hourly point, and an hourly record past the cutoff.
C4_Witness ==
    LET h == ParsedHour(data["60minutes"])
        th == ParsedHour(data["hour"])
        d == ParsedDay(data["day"])
    IN /\ pc = "merged"
       /\ Ascending(h) /\ Ascending(th) /\ Ascending(d)
       /\ Len(merged) = 2
       /\ merged[1].datetime <= now + 12
       /\ merged[2].datetime > now + 12
       /\ \E i \in 1..Len(h) : h[i].ok /\ h[i].fdate > now + 12

\* C5: for three sources each strictly ascending by timestamp, the merged
\* sequence has strictly increasing timestamps, none of them before `now`.
C5_MergedStrictlyIncreasing ==
    (/\ pc = "merged"
     /\ StrictlyAscending(ParsedHour(data["60minutes"]))
     /\ StrictlyAscending(ParsedHour(data["hour"]))
     /\ StrictlyAscending(ParsedDay(data["day"]))) =>
        /\ \A i, j \in 1..Len(merged) : i < j => merged[i].datetime < merged[j].datetime
        /\ \A i \in 1..Len(merged) : merged[i].datetime >= now

\* C5's case: strictly ascending sources that hold records at both boundaries
\* (the hourly and three-hourly source at now+12h, or the three-hourly and
\* daily source at the daily cutoff) and a merged sequence of two points.
C5_Witness ==
    LET h == ParsedHour(data["60minutes"])
        th == ParsedHour(data["hour"])
        d == ParsedDay(data["day"])
    IN /\ pc = "merged"
       /\ StrictlyAscending(h) /\ StrictlyAscending(th) /\ StrictlyAscending(d)
       /\ \E i \in 1..Len(h), j \in 1..Len(th) :
             h[i].ok /\ th[j].ok /\ h[i].fdate = th[j].fdate /\ h[i].fdate = now + 12
       /\ Len(merged) = 2

\* C6: a record that fails to parse is skipped: the merged sequence is the one
\* the same input without that record gives, in whichever source it stands.
C6_UnparseableSkipped ==
    pc = "merged" =>
        /\ \A i \in 1..Len(data["60minutes"]) :
              ~parse_forecast_hour(data["60minutes"][i]).ok =>
                 merged = MergeForecast(now, ForecastData(RemoveAt(data["60minutes"], i),
                                                          data["hour"], data["day"]))
        /\ \A i \in 1..Len(data["hour"]) :
              ~parse_forecast_hour(data["hour"][i]).ok =>
                 merged = MergeForecast(now, ForecastData(data["60minutes"],
                                                          RemoveAt(data["hour"], i), data["day"]))
        /\ \A i \in 1..Len(data["day"]) :
              ~parse_forecast_day(data["day"][i]).ok =>
                 merged = MergeForecast(now, ForecastData(data["60minutes"], data["hour"],
                                                          RemoveAt(data["day"], i)))

\* C6's case: an hourly source whose first record does not parse and carries a
\* timestamp past the hourly cutoff, followed by a record that is merged.
C6_Witness ==
    /\ pc = "merged"
    /\ Len(data["60minutes"]) >= 2
    /\ ~parse_forecast_hour(data["60minutes"][1]).ok
    /\ data["60minutes"][1]["local_date_time"].val > now + 12
    /\ parse_forecast_hour(data["60minutes"][2]).ok
    /\ Len(merged) >= 1
    /\ merged[1] = parse_forecast_hour(data["60minutes"][2]).data


\* The positions of a parsed source holding a parseable record later than hi
PastAt(ps, hi) == { i \in 1..Len(ps) : ps[i].ok /\ ps[i].fdate > hi }

\* The records of a parsed source before its first parseable record later than
\* hi, all of them when there is none
UpToFirstPast(ps, hi) ==
    IF PastAt(ps, hi) = {} THEN ps
    ELSE SubSeq(ps, 1, (CHOOSE i \in PastAt(ps, hi) : \A j \in PastAt(ps, hi) : i <= j) - 1)

\* C18: in whatever order the sources are, the hourly and the three-hourly
\* pass stop at their first parseable record later than their cutoff, so that
\* no record after it is included even if it lies inside the window; the daily
\* pass never stops and includes every parseable record later than its cutoff.
C18_PassesStopAtFirstPastCutoff ==
    LET hourly_cutoff == now + 12
        daily_cutoff == ((now + 48) \div 24) * 24
        h == ParsedHour(data["60minutes"])
        th == ParsedHour(data["hour"])
        d == ParsedDay(data["day"])
    IN pc = "merged" =>
          merged = Window(UpToFirstPast(h, hourly_cutoff), now, hourly_cutoff)
                   \o Window(UpToFirstPast(th, daily_cutoff), hourly_cutoff + 1, daily_cutoff)
                   \o From(d, daily_cutoff + 1)

\* C18's case: an hourly source out of order, with a record inside the window
\* placed after a record past the cutoff; neither is merged, the point of the
\* daily source is the only one.
C18_Witness ==
    LET h == ParsedHour(data["60minutes"])
        d == ParsedDay(data["day"])
    IN /\ pc = "merged"
       /\ Len(h) = 2
       /\ h[1].ok /\ h[1].fdate > now + 12
       /\ h[2].ok /\ h[2].fdate >= now /\ h[2].fdate <= now + 12
       /\ Len(d) = 1
       /\ merged = <<d[1].data>>

----------------------------------------------------------------------------
(* Properties of the token cache and of the refresh cycle *)

\* The step in which get_api_key is called: the coroutine leaves "idle"
GetApiKeyCalled == pc = "idle" /\ pc' # "idle"

\* C1: get_api_key starts a token exchange exactly when the store holds no
\* expires_at or the clock is at or past it; otherwise it starts none, leaves
\* the store as it is and returns the stored token.
C1_RenewsExactlyWhenExpired ==
    [][GetApiKeyCalled =>
         LET expired == ~HasKey(api_data, "expires_at") \/ clock >= api_data["expires_at"]
         IN /\ (pc' = "token") <=> expired
            /\ ~expired => /\ pc' = "get"
                           /\ api_data' = api_data
                           /\ bearer' = Some(api_data["api_key"])]_vars

\* C1's case: an exchange under way that began with the clock equal to the
\* stored expires_at (the clock never runs backwards and the exchange began at
\* or after expires_at).
C1_Witness ==
    /\ pc = "token"
    /\ HasKey(api_data, "expires_at")
    /\ clock = api_data["expires_at"]

\* C2: after a successful renewal at time t with a positive expires_in, a
\* get_api_key call before t + expires_in starts no exchange and returns the
\* stored token, whether or not the response carried issued_at.
C2_NoRenewalWithinLifetime ==
    [][(/\ GetApiKeyCalled
        /\ renewed # None
        /\ renewed[1].expires_in > 0
        /\ clock < renewed[1].t + renewed[1].expires_in) =>
           /\ pc' = "get"
           /\ api_data' = api_data
           /\ bearer' = Some(api_data["api_key"])]_vars

\* The part of C2 the code keeps: the same, for a renewal whose response
\* carried issued_at.
NoRenewalWithinLifetimeWhenIssuedAtSent ==
    [][(/\ GetApiKeyCalled
        /\ renewed # None
        /\ ~renewed[1].synthesized
        /\ clock < renewed[1].t + renewed[1].expires_in) =>
           /\ pc' = "get"
           /\ api_data' = api_data
           /\ bearer' = Some(api_data["api_key"])]_vars

\* C3: an exchange response without access_token or without expires_in ends
\* the cycle with the ValueError of the response check and leaves the store,
\* its access token and its expires_at, as it was.
C3_MalformedResponseKeepsStore ==
    [][(/\ pc = "token"
        /\ token_data' # None
        /\ {"access_token", "expires_in"} \ DOMAIN token_data'[1] # {}) =>
           /\ outcome' = "error"
           /\ err' = "ValueError"
           /\ api_data' = api_data]_vars

\* C3's case: a response with expires_in and without access_token was refused
\* while the store held a token of an earlier renewal.
C3_Witness ==
    /\ outcome = "error"
    /\ err = "ValueError"
    /\ token_data # None
    /\ HasKey(token_data[1], "expires_in")
    /\ ~HasKey(token_data[1], "access_token")
    /\ HasKey(api_data, "api_key")
    /\ HasKey(api_data, "expires_at")

\* The last cycle ran the merge
MergeRan == DOMAIN data # {}

\* C7: a cycle that ends in an error leaves every published field as it was
\* when the cycle began.
C7_FailedCycleKeepsState ==
    outcome = "error" => self = pre

\* C8: when the merged sequence is empty the cycle ends in the error of the
\* split (pop from an empty list) and publishes no condition, temperature,
\* wind or attribute.
C8_EmptyMergeFails ==
    (pc = "idle" /\ MergeRan /\ Len(merged) = 0) =>
        /\ outcome = "error"
        /\ err = "IndexError"
        /\ self._state = pre._state
        /\ self._temperature = pre._temperature
        /\ self._wind_speed = pre._wind_speed
        /\ self._wind_bearing = pre._wind_bearing
        /\ self._state_attrs = pre._state_attrs

\* C8's case: after a cycle that published a condition, a response whose
\* records are all filtered out gave an empty merged sequence.
C8_Witness ==
    /\ pc = "idle"
    /\ MergeRan
    /\ Len(merged) = 0
    /\ Len(data["60minutes"]) > 0
    /\ pre._state # None
    /\ err = "IndexError"

\* C9: after a successful cycle the published current conditions are those of
\* the first merged point and the published forecast is the merged sequence
\* without it: same order, one shorter, the first point not in it.
C9_FirstPointSplitOff ==
    outcome = "ok" =>
        /\ Len(merged) >= 1
        /\ self._state = Some(merged[1]["condition"])
        /\ self._temperature = Some(merged[1]["temperature"])
        /\ self._wind_speed = Some(merged[1]["wind_speed"])
        /\ self._state_attrs["symbol_id"] = merged[1]["symbol_id"]
        /\ self._state_attrs["precipitation"] = merged[1]["precipitation"]
        /\ self._state_attrs["precipitation_probability"] = merged[1]["precipitation_probability"]
        /\ Len(self._forecast) = Len(merged) - 1
        /\ \A i \in 1..Len(self._forecast) : self._forecast[i] = merged[i + 1]
        /\ \A i \in 1..Len(self._forecast) : self._forecast[i]["datetime"] # merged[1]["datetime"]

\* C9's case: a successful cycle over a merged sequence of four points that
\* replaced the result of an earlier successful cycle.
C9_Witness ==
    /\ outcome = "ok"
    /\ Len(merged) = 4
    /\ pre._state # None
    /\ pre._state # self._state

\* C10: a cancelled cycle leaves the published state identical to the result
\* of the last successful cycle.
C10_CancelledShowsLastResult ==
    (outcome = "cancelled" /\ last_ok # InitSelf) => self = last_ok

\* The cancelled cycle itself assigns no published field (the state C10 finds
\* differing from the last result was left by an earlier failed cycle, C7).
CancelledCycleAssignsNothing ==
    outcome = "cancelled" => self = pre

\* C11: after a successful renewal the stored expires_at is the token's issue
\* time in epoch seconds plus expires_in, both when the response carried
\* issued_at and when issued_at was synthesized as the current time.
C11_ExpiryIsIssueTimePlusLifetime ==
    renewed # None =>
        api_data["expires_at"] = renewed[1].t + renewed[1].expires_in

\* The half of C11 that holds: when the response carried issued_at (in
\* milliseconds), the stored expiry is issue time plus lifetime.
ExpiryIsIssueTimePlusLifetimeWhenIssuedAtSent ==
    (renewed # None /\ ~renewed[1].synthesized) =>
        api_data["expires_at"] = renewed[1].t + renewed[1].expires_in

\* The other half as the code computes it: a synthesized issue time, already in
\* seconds, is divided by MS_PER_S again.
SynthesizedExpiryIsScaledDown ==
    (renewed # None /\ renewed[1].synthesized) =>
        api_data["expires_at"] = renewed[1].expires_in + (renewed[1].t \div MS_PER_S)

\* A status outside the 2xx range
NonSuccess(status) == status \notin 200..299

\* This step received the token endpoint's response, with a non-success status
TokenEndpointFailed ==
    /\ pc = "token"
    /\ http_status.post = 0
    /\ http_status'.post # 0
    /\ NonSuccess(http_status'.post)

\* This step received the forecast endpoint's response, with a non-success status
ForecastEndpointFailed ==
    /\ pc = "get"
    /\ http_status.get = 0
    /\ http_status'.get # 0
    /\ NonSuccess(http_status'.get)

\* C12: a non-success HTTP status from either endpoint ends the cycle in an
\* error: from the token endpoint, no token or expiry is stored; from the
\* forecast endpoint, no forecast is merged or published.
C12_HttpFailureIsFatal ==
    [][/\ TokenEndpointFailed =>
            /\ outcome' = "error"
            /\ api_data' = api_data
       /\ ForecastEndpointFailed =>
            /\ outcome' = "error"
            /\ merged' = <<>>
            /\ self' = self]_vars

\* The half of C12 that holds: a non-success status of the forecast endpoint
\* ends the cycle with nothing merged and nothing published.
ForecastHttpFailureIsFatal ==
    [][ForecastEndpointFailed =>
            /\ outcome' = "error"
            /\ err' = "ClientResponseError"
            /\ merged' = <<>>
            /\ self' = self]_vars

\* The token half as the code behaves: the status of the token endpoint's
\* response decides nothing, a body with both keys is stored under any status.
TokenStatusIsIgnored ==
    [][(TokenEndpointFailed /\ EXPECTED_KEYS \subseteq DOMAIN token_data'[1]) =>
            /\ outcome' = "running"
            /\ api_data'["api_key"] = token_data'[1]["access_token"]]_vars

\* The condition categories of the table
ConditionCategories ==
    { "sunny", "clear-night", "partlycloudy", "cloudy", "fog", "rainy",
      "pouring", "snowy", "snowy-rainy", "lightning", "lightning-rainy" }

\* C13: get_condition_from_symbol returns for every integer: for k in 1..30
\* both k and -k give a category other than unavailable, 1 gives sunny and -1
\* gives clear-night; every other integer, 0 included, gives unavailable.
C13_ConditionMapIsTotal ==
    pc = "condition" =>
        /\ (arg \in 1..30 \/ (0 - arg) \in 1..30) =>
                result \in ConditionCategories /\ result # STATE_UNAVAILABLE
        /\ arg = 1 => result = "sunny"
        /\ arg = 0 - 1 => result = "clear-night"
        /\ (arg \notin 1..30 /\ (0 - arg) \notin 1..30) => result = STATE_UNAVAILABLE

\* C13's case: the mapper applied to a night symbol id.
C13_Witness ==
    pc = "condition" /\ arg = 0 - 30 /\ result = "snowy-rainy"

\* C14: for an integer deg, deg_to_cardinal returns the label of the 22.5
\* degree sector whose centre is nearest to deg modulo 360, sector 16 being
\* sector 0 again (349..359 give N), and deg + 360 gives the same label;
\* negative degrees and degrees of 360 and more are accepted.
C14_CardinalIsNearestSector ==
    pc = "cardinal" =>
        LET m == arg % 360
        IN /\ \E k \in 0..16 :
                /\ 16 * m - 360 * k \in (0 - 179)..179
                /\ result = CARDINALS[(k % 16) + 1]
           /\ m \in 349..359 => result = "N"
           /\ deg_to_cardinal(arg + 360) = result
           /\ deg_to_cardinal(arg - 360) = result

\* C14's case: a negative bearing in the last half sector, which wraps to N.
C14_Witness ==
    pc = "cardinal" /\ arg = 0 - 365 /\ result = "N"

----------------------------------------------------------------------------
(* Properties of entities and coroutines side by side *)

\* What entity e holds: its attributes, its credential store, its state
\* attributes
EntityView(e) == <<ents[e], heap[ents[e]._api_data], heap[ents[e]._state_attrs]>>

\* C15: a step of a coroutine of one entity (a renewal or a refresh) changes
\* neither the other entity's credential store, nor its published state, nor
\* the config mapping the entities were created from.
C15_EntitiesShareNothing ==
    [][\A k \in DOMAIN tasks :
            tasks'[k] # tasks[k] =>
                /\ \A o \in DOMAIN ents :
                        o # tasks[k].entity => EntityView(o)' = EntityView(o)
                /\ \A e \in DOMAIN ents :
                        heap'[ents[e]._config] = heap[ents[e]._config]]_vars

\* C15's case: the first entity has renewed its token and published a
\* forecast, the second, made from the same config mapping, has done neither.
C15_Witness ==
    /\ ents[1]._config = ents[2]._config
    /\ HasKey(heap[ents[1]._api_data], "api_key")
    /\ ents[1]._state # None
    /\ HasKey(heap[ents[1]._state_attrs], "symbol_id")
    /\ heap[ents[2]._api_data] = Config
    /\ SelfOf(heap, ents[2]) = InitSelf
    /\ heap[ents[1]._config] = Config

\* The coroutines that run on the entity whose credential store is at address a
CallersOn(a) == { k \in DOMAIN tasks : ents[tasks[k].entity]._api_data = a }

\* C17: under every interleaving of get_api_key calls on one store, the
\* stored api_key and expires_at are those of one exchange response, the one
\* of the renewal that completed last (so also once every caller has
\* finished); a store no renewal completed on holds neither.
C17_StoreFromOneExchange ==
    \A a \in DOMAIN heap :
        IF stored[a] = None
        THEN ~HasKey(heap[a], "api_key") /\ ~HasKey(heap[a], "expires_at")
        ELSE /\ \E k \in CallersOn(a) : tasks[k].resp = stored[a]
             /\ heap[a]["api_key"] = stored[a][1]["access_token"]
             /\ heap[a]["expires_at"] =
                    stored[a][1]["expires_in"] + (stored[a][1]["issued_at"] \div MS_PER_S)

\* C17's case: two coroutines on the same store both renewed, with responses
\* that differ in token and lifetime, and both have finished; the renewal of
\* the first completed last.
C17_Witness ==
    /\ CallersOn(ents[1]._api_data) = {1, 2}
    /\ tasks[1].pc = "done" /\ tasks[2].pc = "done"
    /\ tasks[1].resp # None /\ tasks[2].resp # None
    /\ tasks[1].resp[1]["access_token"] # tasks[2].resp[1]["access_token"]
    /\ tasks[1].resp[1]["expires_in"] # tasks[2].resp[1]["expires_in"]
    /\ stored[ents[1]._api_data] = tasks[1].resp

----------------------------------------------------------------------------
(* Further properties of the refresh cycle *)

\* The cycle has ended, its GET succeeded and the merge gave at least one point
CycleEndedWithData ==
    /\ pc = "idle"
    /\ http_status.get # 0
    /\ ~NonSuccess(http_status.get)
    /\ Len(merged) > 0

\* C16: a cycle whose GET succeeds and whose merged sequence is non-empty
\* ends successfully with the current conditions published, also when the
\* first merged record has no wind bearing, which is then left unset.
C16_CycleWithDataSucceeds ==
    CycleEndedWithData =>
        /\ outcome = "ok"
        /\ self._state = Some(merged[1]["condition"])
        /\ ~HasKey(merged[1], "wind_bearing") => self._wind_bearing = pre._wind_bearing

\* The half of C16 that holds: with a bearing in the first merged record the
\* cycle succeeds and publishes it as a cardinal label.
CycleWithBearingSucceeds ==
    (CycleEndedWithData /\ HasKey(merged[1], "wind_bearing")) =>
        /\ outcome = "ok"
        /\ self._state = Some(merged[1]["condition"])
        /\ self._wind_bearing = Some(deg_to_cardinal(merged[1]["wind_bearing"]))

\* The other half as the code behaves: without a bearing in the first merged
\* record the cycle ends in a KeyError.
CycleWithoutBearingFails ==
    (CycleEndedWithData /\ ~HasKey(merged[1], "wind_bearing")) =>
        outcome = "error" /\ err = "KeyError"

\* C19: whenever a cycle ends, a cancellation raised in it was re-raised by
\* async_update, wherever the coroutine was suspended, and every other
\* exception was caught and logged, not propagated.
C19_OnlyCancellationPropagates ==
    (pc = "idle" /\ outcome # "none") =>
        /\ err = "CancelledError" => outcome = "cancelled"
        /\ err \notin {"", "CancelledError"} => outcome = "error"
        /\ err = "" => outcome = "ok"

\* C19's case: a cycle cancelled while suspended in the GET, after a token
\* exchange of its own, following a cycle that ended in a caught exception.
C19_Witness ==
    /\ outcome = "cancelled"
    /\ token_data # None
    /\ bearer # None
    /\ pre # last_ok


====
